---- MODULE Spec2Model ----
(***************************************************************************)
(* Transcript -> requirements pipeline (main.py, classify_msg.py,          *)
(* normalize.py, gen_req.py).                                              *)
(*                                                                         *)
(* Text is modelled as a sequence of word tokens.  Every token stands for  *)
(* one Japanese (or ASCII) word of the source; the romanised name is used  *)
(* because the module is ASCII.  `kw in text` of the source is substring   *)
(* search: a keyword occurs in a text when some token is the keyword or    *)
(* properly contains it (ProperSubstr).                                    *)
(*                                                                         *)
(*   tsuchi 通知        toast トースト      login ログイン   log ログ      *)
(*   shoki_hyouji 初期表示   hyouji 表示    sign_in サインイン             *)
(*   kanrisha 管理者    henshuu 編集   sakujo 削除   kengen 権限           *)
(*   3byou 3秒   performance パフォーマンス   outou_jikan 応答時間         *)
(*   error_message エラーメッセージ   mongon 文言   message メッセージ     *)
(*   hoji_kikan 保持期間   90nichi 90日   hozon_kikan 保存期間             *)
(*   tutorial チュートリアル  onboarding オンボーディング  guide ガイド    *)
(*   button ボタン  migishita 右下  chuuouka 中央下  chuuouka_yose 中央下寄せ *)
(*   jogai 除外   hani_kara_jogai 範囲から除外                             *)
(*   sono_mongon_de_kettei その文言で決定   wo_kakutei を確定              *)
(*   ittan 一旦  zantei 暫定  kouho 候補  horyu 保留  kentouchuu 検討中    *)
(*   kari 仮   kuten 。   touten 、   sonota その他                        *)
(*   setsumei 説明  shitsumon 質問  youken 要件  kettei 決定               *)
(***************************************************************************)
EXTENDS Integers, Sequences, FiniteSets, TLC

(***************************************************************************)
(* Bounds of the model.                                                    *)
(***************************************************************************)
MaxRecs == 3
MaxUtt == 2

(***************************************************************************)
(* Generic sequence helpers.                                               *)
(***************************************************************************)
Range(s) == {s[i] : i \in 1..Len(s)}

\* the elements of s that are in keep, in the order of s
FilterSeq(s, keep) == SelectSeq(s, LAMBDA x : x \in keep)

SeqsUpTo(S, n) == UNION {[1..k -> S] : k \in 0..n}

\* the sequences of at most n pairwise different elements of S
DistinctSeqsUpTo(S, n) ==
    {s \in SeqsUpTo(S, n) : \A i, j \in 1..Len(s) : s[i] = s[j] => i = j}

(***************************************************************************)
(* Substring search over token texts.                                      *)
(***************************************************************************)
ProperSubstr ==
    { <<"login", "log">>, <<"shoki_hyouji", "hyouji">>,
      <<"error_message", "message">>, <<"chuuouka_yose", "chuuouka">>,
      <<"hani_kara_jogai", "jogai">>, <<"sono_mongon_de_kettei", "mongon">>,
      <<"sore_sansei_desu", "sansei_desu">> }

TokenHas(tok, kw) == tok = kw \/ <<tok, kw>> \in ProperSubstr

Contains(text, kw) == \E i \in 1..Len(text) : TokenHas(text[i], kw)

ContainsAny(text, kws) == \E kw \in kws : Contains(text, kw)

StartsWith(text, kw) == Len(text) > 0 /\ text[1] = kw

(***************************************************************************)
(* DEFAULT_PROFILE (normalize.py): the profile a run loads.                *)
(***************************************************************************)
Lower(tok) ==
    CASE tok = "DESC" -> "desc"
      [] tok = "Req" -> "req"
      [] OTHER -> tok

text_replacements ==
    << [pattern |-> {"desc"}, replace |-> "setsumei"],
       [pattern |-> {"ques", "question", "q"}, replace |-> "shitsumon"],
       [pattern |-> {"req", "requirement"}, replace |-> "youken"],
       [pattern |-> {"dec", "decision"}, replace |-> "kettei"] >>

non_requirement_phrases ==
    { "sore_sansei_desu", "sansei_desu", "arigatou_gozaimasu", "ryoukai_desu",
      "onegai_shimasu", "mondai_arimasen", "tasukarimasu", "naruhodo",
      "ryoukai_shimashita", "shouchi_shimashita" }

tentative_words == {"ittan", "zantei", "kouho", "horyu", "kentouchuu", "kari"}

feature_map ==
    << <<"login", {"login", "shoki_hyouji", "button"}>>,
       <<"tsuchi", {"tsuchi", "toast"}>>,
       <<"kengen", {"kanrisha", "henshuu", "sakujo", "kengen"}>>,
       <<"seinou", {"3byou", "hyouji", "performance", "outou_jikan"}>>,
       <<"mongon", {"mongon", "error_message", "message"}>>,
       <<"hoji", {"hoji_kikan", "log", "90nichi", "hozon_kikan"}>>,
       <<"tutorial", {"tutorial", "onboarding"}>>,
       <<"button_ichi", {"button", "migishita", "chuuouka"}>> >>

nonfunctional_features == {"seinou", "hoji"}

topic_keys ==
    << <<"tsuchi", {"tsuchi", "toast"}>>,
       <<"login", {"login", "shoki_hyouji", "sign_in"}>>,
       <<"kengen", {"kanrisha", "henshuu", "sakujo", "kengen"}>>,
       <<"seinou", {"3byou", "performance", "hyouji", "outou_jikan"}>>,
       <<"mongon", {"error_message", "mongon", "message"}>>,
       <<"hoji", {"hoji_kikan", "log", "90nichi", "hozon_kikan"}>>,
       <<"tutorial", {"tutorial", "onboarding", "guide"}>>,
       <<"button_ichi", {"button", "migishita", "chuuouka", "chuuouka_yose"}>> >>

(***************************************************************************)
(* apply_replacements: each pattern is \bword\b, case-insensitive.  Kana   *)
(* and kanji are word characters, so a token is a whole word only when     *)
(* both neighbours are a text end, white space or punctuation.             *)
(***************************************************************************)
Whitespace == {" ", "nl"}

NonWord == Whitespace \cup {"kuten", "touten", ":"}

WordBoundaryAt(text, i) ==
    /\ (i = 1 \/ text[i - 1] \in NonWord)
    /\ (i = Len(text) \/ text[i + 1] \in NonWord)

ReSub(r, text) ==
    [i \in 1..Len(text) |->
        IF Lower(text[i]) \in r.pattern /\ WordBoundaryAt(text, i)
        THEN r.replace ELSE text[i]]

RECURSIVE ApplyFrom(_, _)
ApplyFrom(k, s) ==
    IF k > Len(text_replacements) THEN s
    ELSE ApplyFrom(k + 1, ReSub(text_replacements[k], s))

apply_replacements(text) == ApplyFrom(1, text)

is_non_requirement(text) == ContainsAny(text, non_requirement_phrases)

RECURSIVE FirstMatch(_, _, _)
FirstMatch(table, k, text) ==
    IF k > Len(table) THEN "sonota"
    ELSE IF ContainsAny(text, table[k][2]) THEN table[k][1]
         ELSE FirstMatch(table, k + 1, text)

guess_feature(text) == FirstMatch(feature_map, 1, text)

topic_of(text) == FirstMatch(topic_keys, 1, text)

\* is_tentative with all() for any()
is_tentative_Mut(text) == \A w \in tentative_words : Contains(text, w)

is_tentative(text) == ContainsAny(text, tentative_words)

(***************************************************************************)
(* norm_text: drop white space, then "kuten" and "touten".                 *)
(***************************************************************************)
AllTokens(text) == Range(text)

\* norm_text without the removal of punctuation
norm_text_Mut(t) == FilterSeq(t, AllTokens(t) \ Whitespace)

norm_text(t) ==
    LET t1 == FilterSeq(t, AllTokens(t) \ Whitespace)
    IN  FilterSeq(t1, AllTokens(t1) \ {"kuten", "touten"})

(***************************************************************************)
(* Timestamps.  A timestamp string is [dt, tail]: dt is the date-time the  *)
(* ISO body denotes (NoBody when the string has no ISO body), tail is what *)
(* follows it: "", "Z", "offset" (a UTC offset of off hours) or "junk".     *)
(* A parsed datetime is [aware, v]; an aware one compares by UTC instant.  *)
(***************************************************************************)
NoBody == -1

DatetimeMin == 0

Ts(dt, tail, off) == [dt |-> dt, tail |-> tail, off |-> off]

StripZ(ts) == IF ts.tail = "Z" THEN [ts EXCEPT !.tail = ""] ELSE ts

fromisoformat(ts) ==
    IF ts.dt = NoBody \/ ts.tail = "junk"
    THEN [ok |-> FALSE, aware |-> FALSE, v |-> 0]
    ELSE IF ts.tail = "offset"
         THEN [ok |-> TRUE, aware |-> TRUE, v |-> ts.dt - ts.off]
         ELSE [ok |-> TRUE, aware |-> FALSE, v |-> ts.dt]

to_dt(ts) ==
    LET r == fromisoformat(StripZ(ts))
    IN  IF r.ok THEN [aware |-> r.aware, v |-> r.v]
        ELSE [aware |-> FALSE, v |-> DatetimeMin]

\* datetime.__gt__ / __lt__: TypeError between naive and aware values
CompareRaises(a, b) == a.aware # b.aware

\* the comparison of line 105 turned round
DtGreater_Mut(a, b) == a.v < b.v

\* the comparison of line 105 as >=
DtGreater_Ge(a, b) == a.v >= b.v

DtGreater(a, b) == a.v > b.v

(***************************************************************************)
(* Requirement records (normalize.py, normalize_records).  A Python list   *)
(* of dicts is a sequence of references into recs, the records of the run: *)
(* fr, nfr, dec, latest_by_topic and out_of_scope all refer to the same    *)
(* dict objects, so a statement rewritten through one is seen through all. *)
(***************************************************************************)
NoId == [prefix |-> "", seq |-> 0]

Rec(feature, category, statement, ac, label, speaker, ts, reason, topic) ==
    [ id |-> NoId,
      feature |-> feature,
      category |-> category,
      statement |-> statement,
      acceptance_criteria |-> ac,
      priority |-> IF label = "decision" THEN "Must" ELSE "Should",
      status |-> IF label = "decision" THEN "kettei"
                 ELSE IF label \in {"proposal", "question"} THEN "kentouchuu"
                 ELSE "jouhou",
      source |-> [speaker |-> speaker, timestamp |-> ts],
      rationale |-> reason,
      tags |-> <<topic>> ]

\* [x for x in out if x["category"] == cat], as references
RefsOf(rs, cat) == FilterSeq([i \in 1..Len(rs) |-> i],
                             {i \in 1..Len(rs) : rs[i].category = cat})

\* next_id: one more than the ids of seq that already carry the prefix
next_id(rs, seq, prefix) ==
    [prefix |-> prefix,
     seq |-> Cardinality({k \in 1..Len(seq) : rs[seq[k]].id.prefix = prefix}) + 1]

RECURSIVE AssignFrom(_, _, _, _)
AssignFrom(rs, seq, prefix, k) ==
    IF k > Len(seq) THEN rs
    ELSE AssignFrom([rs EXCEPT ![seq[k]].id = next_id(rs, seq, prefix)],
                    seq, prefix, k + 1)

\* normalize_records, the three id loops
AssignIds(rs) ==
    LET r1 == AssignFrom(rs, RefsOf(rs, "functional"), "FR", 1)
        r2 == AssignFrom(r1, RefsOf(r1, "nonfunctional"), "NFR", 1)
    IN  AssignFrom(r2, RefsOf(r2, "decision"), "DEC", 1)

(***************************************************************************)
(* The chat-completion responses.  A response text is a token sequence;    *)
(* "{" body "}" is a JSON object ("full": both keys, "partial": neither).  *)
(***************************************************************************)
ContentPool ==
    { <<"{", "full", "}">>, <<"prose", "{", "full", "}", "prose">>,
      <<"{", "partial", "}">>, <<"{", "broken", "}">>, <<"prose">>,
      <<"[", "]">> }

FirstIndex(s, tok) ==
    IF tok \in Range(s) THEN CHOOSE i \in 1..Len(s) :
            s[i] = tok /\ \A j \in 1..(i - 1) : s[j] # tok
    ELSE 0

LastIndex(s, tok) ==
    IF tok \in Range(s) THEN CHOOSE i \in 1..Len(s) :
            s[i] = tok /\ \A j \in (i + 1)..Len(s) : s[j] # tok
    ELSE 0

_extract_json_text(s) ==
    LET start == FirstIndex(s, "{")
        end == LastIndex(s, "}")
    IN  IF start # 0 /\ end # 0 /\ end > start THEN SubSeq(s, start, end)
        ELSE s

\* json.loads: [ok, dict, keys]
json_loads(s) ==
    IF Len(s) = 3 /\ s[1] = "{" /\ s[3] = "}" /\ s[2] \in {"full", "partial"}
    THEN [ok |-> TRUE, dict |-> TRUE, full |-> s[2] = "full"]
    ELSE IF s = <<"[", "]">>
         THEN [ok |-> TRUE, dict |-> FALSE, full |-> FALSE]
         ELSE [ok |-> FALSE, dict |-> FALSE, full |-> FALSE]

\* the statement and acceptance criteria a well-formed answer carries
NormStatement(utterance) == utterance \o <<"mono_to_suru">>

NormCriteria == <<"given_when_then">>

(***************************************************************************)
(* llm_normalize: [raised, dict, keys, statement, acceptance_criteria].    *)
(* raised is the exception that leaves the function ("none": it returns);  *)
(* dict tells whether the value returned is a JSON object, keys its keys.  *)
(***************************************************************************)
Returned(dict, keys, statement, ac) ==
    [raised |-> "none", dict |-> dict, keys |-> keys,
     statement |-> statement, acceptance_criteria |-> ac]

Raised(e) ==
    [raised |-> e, dict |-> FALSE, keys |-> {},
     statement |-> <<>>, acceptance_criteria |-> <<>>]

Loaded(v, utterance) ==
    IF ~v.ok THEN Raised("JSONDecodeError")
    ELSE IF v.dict /\ v.full
         THEN Returned(TRUE, {"statement", "acceptance_criteria"},
                       NormStatement(utterance), NormCriteria)
         ELSE Returned(v.dict, {}, <<>>, <<>>)

\* re.search(r"\{.*\}", content, re.DOTALL): the span matched, <<>> if none
BraceMatch(content) ==
    LET start == FirstIndex(content, "{")
        end == LastIndex(content, "}")
    IN  IF start # 0 /\ end > start THEN SubSeq(content, start, end) ELSE <<>>

llm_normalize(sdk_old, api_error, content, utterance) ==
    IF api_error THEN Raised("APIError")
    ELSE IF ~sdk_old
         THEN Loaded(json_loads(_extract_json_text(content)), utterance)
         ELSE IF BraceMatch(content) = <<>>
              THEN Returned(TRUE, {"statement", "acceptance_criteria"},
                            utterance, <<>>)
              ELSE Loaded(json_loads(_extract_json_text(BraceMatch(content))),
                          utterance)

\* norm.get(key, default) in normalize_records; a non-dict has no get
NormGet(norm, key, default) ==
    IF key \in norm.keys THEN norm[key] ELSE default

(***************************************************************************)
(* gen_req.py: the pure parts of generate_markdown.                        *)
(***************************************************************************)
TimestampOf(rs, ref) == rs[ref].source.timestamp

\* position of topic t in the insertion-ordered dict lbt, 0 if absent
KeyIndex(lbt, t) ==
    IF \E k \in 1..Len(lbt) : lbt[k].topic = t
    THEN CHOOSE k \in 1..Len(lbt) : lbt[k].topic = t
    ELSE 0

\* One iteration of `for r in dec:` (lines 99-106) on the loop state
\* [lbt, others, raised].
CollapseStep(rs, st, r) ==
    LET t == topic_of(rs[r].statement)
        k == KeyIndex(st.lbt, t)
        new == to_dt(TimestampOf(rs, r))
        old == to_dt(TimestampOf(rs, st.lbt[k].ref))
    IN  IF st.raised THEN st
        ELSE IF t = "sonota" THEN [st EXCEPT !.others = Append(@, r)]
        ELSE IF k = 0
             THEN [st EXCEPT !.lbt = Append(@, [topic |-> t, ref |-> r])]
        ELSE IF CompareRaises(new, old) THEN [st EXCEPT !.raised = TRUE]
        ELSE IF DtGreater(new, old) THEN [st EXCEPT !.lbt[k].ref = r]
        ELSE st

RECURSIVE CollapseLoop(_, _, _, _)
CollapseLoop(rs, d, k, st) ==
    IF k > Len(d) THEN st
    ELSE CollapseLoop(rs, d, k + 1, CollapseStep(rs, st, d[k]))

\* list(latest_by_topic.values())
Values(lbt) == [k \in 1..Len(lbt) |-> lbt[k].ref]

LatestFor(lbt, t) == lbt[KeyIndex(lbt, t)].ref

ElliptKeys == {"error_message", "mongon", "message"}

ElliptPrefix == <<"error_message", "mongon", "wo_kakutei", ":", " ">>

IsElliptical(s) == StartsWith(s, "mongon") \/ Contains(s, "sono_mongon_de_kettei")

\* complete_decision_text writing to the matched record p, not the decision
complete_decision_text_Mut(rs, d, proposals_and_info) ==
    LET hits == {k \in 1..Len(proposals_and_info) :
                    ContainsAny(rs[proposals_and_info[k]].statement, ElliptKeys)}
        last == CHOOSE k \in hits : \A j \in hits : j <= k
    IN  IF IsElliptical(rs[d].statement) /\ hits # {}
        THEN [rs EXCEPT ![proposals_and_info[last]].statement =
                 ElliptPrefix \o rs[proposals_and_info[last]].statement]
        ELSE rs

\* complete_decision_text scanning proposals_and_info from its first record
complete_decision_text_Fwd(rs, d, proposals_and_info) ==
    LET hits == {k \in 1..Len(proposals_and_info) :
                    ContainsAny(rs[proposals_and_info[k]].statement, ElliptKeys)}
        first == CHOOSE k \in hits : \A j \in hits : k <= j
    IN  IF IsElliptical(rs[d].statement) /\ hits # {}
        THEN [rs EXCEPT ![d].statement =
                 ElliptPrefix \o rs[proposals_and_info[first]].statement]
        ELSE rs

\* complete_decision_text: the records after the call on decision d
complete_decision_text(rs, d, proposals_and_info) ==
    LET hits == {k \in 1..Len(proposals_and_info) :
                    ContainsAny(rs[proposals_and_info[k]].statement, ElliptKeys)}
        last == CHOOSE k \in hits : \A j \in hits : j <= k
    IN  IF IsElliptical(rs[d].statement) /\ hits # {}
        THEN [rs EXCEPT ![d].statement =
                 ElliptPrefix \o rs[proposals_and_info[last]].statement]
        ELSE rs

RECURSIVE CompleteAll(_, _, _, _)
CompleteAll(rs, d, k, pi) ==
    IF k > Len(d) THEN rs
    ELSE CompleteAll(complete_decision_text(rs, d[k], pi), d, k + 1, pi)

Excludes(ds) == Contains(ds, "jogai") \/ Contains(ds, "hani_kara_jogai")

\* the conflict test reading the decision's statement on both sides
ButtonConflict_Mut(ds, s) ==
    \/ (Contains(ds, "chuuouka") /\ Contains(ds, "migishita"))
    \/ (Contains(ds, "migishita") /\ Contains(ds, "chuuouka"))

ButtonConflict(ds, s) ==
    \/ (Contains(ds, "chuuouka") /\ Contains(s, "migishita"))
    \/ (Contains(ds, "migishita") /\ Contains(s, "chuuouka"))

\* what the loop over fr (lines 117-135) does with record r:
\* "keep", "out_of_scope" or "drop"
RouteFr(rs, lbt, r) ==
    LET topic == topic_of(rs[r].statement)
        ds == rs[LatestFor(lbt, topic)].statement
    IN  IF KeyIndex(lbt, topic) = 0 THEN "keep"
        ELSE IF Excludes(ds) THEN "out_of_scope"
        ELSE IF topic = "button_ichi" /\ ButtonConflict(ds, rs[r].statement)
             THEN "drop"
        ELSE "keep"

\* the loop over nfr without the exclusion test
RouteNfr_Mut(rs, lbt, r) == "keep"

\* what the loop over nfr (lines 137-145) does with record r
RouteNfr(rs, lbt, r) ==
    LET topic == topic_of(rs[r].statement)
        ds == rs[LatestFor(lbt, topic)].statement
    IN  IF KeyIndex(lbt, topic) # 0 /\ Excludes(ds) THEN "out_of_scope"
        ELSE "keep"

DedupKey(rs, r) ==
    <<rs[r].feature, rs[r].category, norm_text(rs[r].statement)>>

RECURSIVE DedupFrom(_, _, _, _, _)
DedupFrom(rs, items, k, seen, out) ==
    IF k > Len(items) THEN out
    ELSE IF DedupKey(rs, items[k]) \in seen
         THEN DedupFrom(rs, items, k + 1, seen, out)
         ELSE DedupFrom(rs, items, k + 1,
                        seen \cup {DedupKey(rs, items[k])},
                        Append(out, items[k]))

dedup(rs, items) == DedupFrom(rs, items, 1, {}, <<>>)

to_dt_from_rec(rs, r) == to_dt(TimestampOf(rs, r))

\* the sort without reverse=True: x goes after every y with key(y) <= key(x)
RECURSIVE SortedDesc_Mut(_, _, _, _)
SortedDesc_Mut(rs, d, k, out) ==
    IF k > Len(d) THEN out
    ELSE LET key == rs[d[k]].source.timestamp
             n == Cardinality({j \in 1..Len(out) :
                    to_dt(rs[out[j]].source.timestamp).v <= to_dt(key).v})
         IN  SortedDesc_Mut(rs, d, k + 1,
                SubSeq(out, 1, n) \o <<d[k]>> \o SubSeq(out, n + 1, Len(out)))

\* sorted(dec, key=to_dt_from_rec, reverse=True): stable, so records with
\* equal keys keep their order; x goes after every y with key(y) >= key(x)
RECURSIVE SortedDesc(_, _, _, _)
SortedDesc(rs, d, k, out) ==
    IF k > Len(d) THEN out
    ELSE LET key == to_dt_from_rec(rs, d[k]).v
             n == Cardinality({j \in 1..Len(out) :
                                 to_dt_from_rec(rs, out[j]).v >= key})
         IN  SortedDesc(rs, d, k + 1,
                        SubSeq(out, 1, n) \o <<d[k]>> \o SubSeq(out, n + 1, Len(out)))

\* a sort compares the records adjacent in its result, so it raises
\* TypeError exactly when naive and aware keys are mixed
SortRaises(rs, d) ==
    \E i, j \in 1..Len(d) :
        CompareRaises(to_dt_from_rec(rs, d[i]), to_dt_from_rec(rs, d[j]))

(***************************************************************************)
(* Inputs.                                                                 *)
(***************************************************************************)
LABELS == {"decision", "proposal", "question", "chitchat", "other"}

Utt(speaker, ts, text) ==
    [speaker |-> speaker, timestamp |-> ts, text |-> text,
     label |-> "unset", topic |-> "unset", label_reason |-> "unset",
     _text_norm |-> <<>>]

\* the utterances an input file may hold
UttPool ==
    { Utt("A", Ts(100, "", 0), <<"tsuchi", "wa", "mail">>),
      Utt("B", Ts(200, "Z", 0), <<"req", " ", "hyouji", "wa", "3byou">>),
      Utt("C", Ts(NoBody, "junk", 0), <<"ryoukai_desu">>) }

PoolRec(category, feature, statement, ts) ==
    Rec(feature, category, statement, <<>>,
        IF category = "decision" THEN "decision" ELSE "proposal",
        "A", ts, "", "t")

\* the decisions a normalized-records document may hold
DecPool ==
    { PoolRec("decision", "tsuchi", <<"tsuchi", "wa", "mail">>, Ts(100, "", 0)),
      PoolRec("decision", "tsuchi", <<"tsuchi", "wa", "jogai">>, Ts(200, "", 0)),
      PoolRec("decision", "tsuchi", <<"toast", "wa", "fuyou">>, Ts(100, "Z", 0)),
      PoolRec("decision", "tsuchi", <<"tsuchi", "wa", "mail">>, Ts(209, "offset", 9)),
      PoolRec("decision", "tsuchi",
              <<"ittan", "touten", "tsuchi", "wa", "horyu">>, Ts(300, "", 0)),
      PoolRec("decision", "mongon", <<"sono_mongon_de_kettei">>, Ts(150, "", 0)),
      PoolRec("decision", "login", <<"button", "wa", "chuuouka">>,
              Ts(NoBody, "junk", 0)),
      PoolRec("decision", "login",
              <<"button", "wa", "chuuouka", "touten", "migishita", "wa", "jogai">>,
              Ts(NoBody, "", 0)),
      PoolRec("decision", "sonota", <<"yosan", "wa", "shounin">>,
              Ts(110, "", 0)),
      PoolRec("decision", "sonota", <<"yosan", "wa", "shounin", "kuten">>,
              Ts(0, "", 0)) }

\* the functional and nonfunctional records it may hold
ReqPool ==
    { PoolRec("functional", "tsuchi", <<"tsuchi", "no", "message", "kouho">>,
              Ts(50, "", 0)),
      PoolRec("functional", "login", <<"button", "wa", "migishita">>, Ts(70, "", 0)),
      PoolRec("functional", "login",
              <<"button", "wa", " ", "migishita", "kuten">>, Ts(80, "", 0)),
      PoolRec("nonfunctional", "hoji",
              <<"DESC", " ", "tsuchi", "log", "no", "mongon">>, Ts(96, "", 0)) }

RecPool == DecPool \cup ReqPool

\* command line, environment and files found at start
Configs ==
    { c \in [ mode : {"tune", "eval"}, input_exists : BOOLEAN, api_key : BOOLEAN,
              profile_exists : BOOLEAN, template : {"ok", "no_arg", "no_file"},
              lock : {"ok", "none", "no_manifest"}, sdk_old : BOOLEAN ] :
        /\ (c.mode = "tune" => c.lock # "no_manifest")
        /\ (c.mode = "eval" => c.template # "no_arg") }

GoodConfig ==
    [ mode |-> "tune", input_exists |-> TRUE, api_key |-> TRUE,
      profile_exists |-> TRUE, template |-> "ok", lock |-> "ok",
      sdk_old |-> FALSE ]

(***************************************************************************)
(* State.                                                                  *)
(***************************************************************************)
VARIABLES
    pc,               \* where the run is
    err,              \* the exception that ended the run, "none" otherwise
    cfg,              \* command line, environment, files found at start
    files,            \* the files and directories this run has created or
                      \* written; none of them exists when the run starts
    utterances,       \* the rows read from the input, then the classified rows
    items,            \* classify_messages: the items of the classifier's answer
    row,              \* normalize_records: index of the next row
    resp,             \* normalize_records: the last normalizer response, its row
    recs,             \* the record dicts (out in normalize_records)
    normalized_json,  \* the records as written to normalized.json
    fr, nfr, dec,     \* generate_markdown: the three lists (references)
    latest_by_topic,  \* generate_markdown: insertion-ordered dict
    keep_others,      \* generate_markdown
    kept_fr, kept_nfr, \* generate_markdown: the lists before dedup
    out_of_scope      \* generate_markdown

vars == <<pc, err, cfg, files, utterances, items, row, resp, recs, normalized_json,
          fr, nfr, dec, latest_by_topic, keep_others, kept_fr, kept_nfr,
          out_of_scope>>

gmVars == <<fr, nfr, dec, latest_by_topic, keep_others, kept_fr, kept_nfr,
            out_of_scope>>

GmInit ==
    /\ fr = <<>> /\ nfr = <<>> /\ dec = <<>>
    /\ latest_by_topic = <<>> /\ keep_others = <<>> /\ out_of_scope = <<>>
    /\ kept_fr = <<>> /\ kept_nfr = <<>>

\* no response from the normalizer (yet)
NoResp == [row |-> 0, content |-> <<>>]

\* main() is entered
Init ==
    /\ pc = "main_start"
    /\ err = "none"
    /\ cfg \in Configs
    /\ files = {}
    /\ utterances \in DistinctSeqsUpTo(UttPool, MaxUtt)
    /\ items = <<>>
    /\ row = 0
    /\ resp = NoResp
    /\ recs = <<>>
    /\ normalized_json = <<>>
    /\ GmInit

\* what main has written when it calls generate_markdown
FilesBeforeRender ==
    {"out_dir", "lock_dir", "lock_profile", "lock_template", "lock_manifest",
     "classified", "normalized"}

\* generate_markdown is entered with the records of a normalized document
InitRec ==
    /\ pc = "gm_start"
    /\ err = "none"
    /\ cfg = GoodConfig
    /\ files = FilesBeforeRender
    /\ utterances = <<>>
    /\ items = <<>>
    /\ row = 0
    /\ resp = NoResp
    /\ \E rs \in SeqsUpTo(RecPool, MaxRecs) :
          /\ recs = AssignIds(rs)
          /\ normalized_json = AssignIds(rs)
    /\ GmInit

Abort(e) == pc' = "aborted" /\ err' = e

(***************************************************************************)
(* main.py                                                                 *)
(***************************************************************************)
\* main, lines 105-111: the output directory is made, then the input checked
Main_Start ==
    /\ pc = "main_start"
    /\ files' = files \cup {"out_dir"}
    /\ IF ~cfg.input_exists THEN Abort("SystemExit")
       ELSE pc' = "main_lock" /\ err' = err
    /\ UNCHANGED <<cfg, items, utterances, row, resp, recs, normalized_json, gmVars>>

\* ensure_profile_exists: the files it writes
ensure_profile_exists(exists) == IF exists THEN {} ELSE {"profile"}

\* copy_to_lock: [written, raised]
copy_to_lock(template) ==
    IF template = "no_file"
    THEN [written |-> {"lock_dir", "lock_profile"}, raised |-> "FileNotFoundError"]
    ELSE [written |-> {"lock_dir", "lock_profile", "lock_template", "lock_manifest"},
          raised |-> "none"]

\* resolve_from_lock: the error it ends with, "none" when the lock is complete
resolve_from_lock(c) ==
    IF c.lock = "no_manifest" THEN "SystemExit"
    ELSE IF ~c.profile_exists THEN "SystemExit"
    ELSE IF c.template = "no_file" THEN "SystemExit"
    ELSE "none"

\* main, lines 113-137
Main_Lock ==
    /\ pc = "main_lock"
    /\ IF cfg.mode = "tune"
       THEN IF cfg.lock = "none" \/ cfg.template = "no_arg"
            THEN Abort("SystemExit") /\ files' = files
            ELSE LET made == ensure_profile_exists(cfg.profile_exists)
                     lock == copy_to_lock(cfg.template)
                 IN  /\ files' = files \cup made \cup lock.written
                     /\ IF lock.raised # "none" THEN Abort(lock.raised)
                        ELSE pc' = "classify" /\ err' = err
       ELSE /\ files' = files
            /\ IF cfg.lock = "none" \/ resolve_from_lock(cfg) # "none"
               THEN Abort("SystemExit")
               ELSE pc' = "classify" /\ err' = err
    /\ UNCHANGED <<cfg, items, utterances, row, resp, recs, normalized_json, gmVars>>

(***************************************************************************)
(* classify_msg.py                                                         *)
(***************************************************************************)
\* a key an item of the answer does not carry
NoKey == "absent"

Item(index, label, topic, reason) ==
    [index |-> index, label |-> label, topic |-> topic, reason |-> reason]

\* the items an answer about n utterances may carry: indices are 0-based,
\* index n belongs to no utterance, an item may carry its index only
ItemPool(n) ==
    {Item(i, l, "t", "r") : i \in 0..n, l \in LABELS}
        \cup {Item(i, NoKey, NoKey, NoKey) : i \in 0..n}

\* by_index.get(i) (lines 129, 132): a later item replaces an earlier one
\* of the same index; None is an item without keys
by_index(its, i) ==
    LET hits == {k \in 1..Len(its) : its[k].index = i}
    IN  IF hits = {} THEN Item(i, NoKey, NoKey, NoKey)
        ELSE its[CHOOSE k \in hits : \A j \in hits : j <= k]

\* (it or {}).get(key, default)
ItemGet(it, key, default) == IF it[key] = NoKey THEN default ELSE it[key]

\* the join taking the i-th item for the i-th utterance
Labeled_Mut(us, its) ==
    [i \in 1..Len(us) |->
        LET it == IF i <= Len(its) THEN its[i]
                  ELSE Item(i - 1, NoKey, NoKey, NoKey)
        IN  [us[i] EXCEPT !.label = ItemGet(it, "label", "other"),
                          !.topic = ItemGet(it, "topic", "sonota"),
                          !.label_reason = ItemGet(it, "reason", ""),
                          !._text_norm = apply_replacements(us[i].text)]]

\* the join of lines 128-136
Labeled(us, its) ==
    [i \in 1..Len(us) |->
        LET it == by_index(its, i - 1)
        IN  [us[i] EXCEPT !.label = ItemGet(it, "label", "other"),
                          !.topic = ItemGet(it, "topic", "sonota"),
                          !.label_reason = ItemGet(it, "reason", ""),
                          !._text_norm = apply_replacements(us[i].text)]]

\* classify_messages, lines 36-126: credential, input, the classifier's answer
Classify_Call ==
    /\ pc = "classify"
    /\ IF ~cfg.api_key
       THEN Abort("SystemExit") /\ UNCHANGED <<files, items>>
       ELSE \E outcome \in {"APIError", "JSONDecodeError", "none"} :
               /\ files' = files
                    \cup (IF cfg.sdk_old /\ outcome # "APIError"
                          THEN {"debug"} ELSE {})
               /\ IF outcome # "none"
                  THEN Abort(outcome) /\ UNCHANGED items
                  ELSE /\ items' \in SeqsUpTo(ItemPool(Len(utterances)),
                                              Len(utterances))
                       /\ pc' = "classify_join" /\ err' = err
    /\ UNCHANGED <<cfg, utterances, row, resp, recs, normalized_json, gmVars>>

\* classify_messages, lines 128-142: the join, then classified.json
Classify_Join ==
    /\ pc = "classify_join"
    /\ utterances' = Labeled(utterances, items)
    /\ items' = <<>>
    /\ files' = files \cup {"classified"}
    /\ pc' = "normalize"
    /\ UNCHANGED <<err, cfg, row, resp, recs, normalized_json, gmVars>>

(***************************************************************************)
(* normalize.py, normalize_records                                         *)
(***************************************************************************)
RECURSIVE Strip(_)
Strip(t) ==
    IF t = <<>> THEN t
    ELSE IF Head(t) \in Whitespace THEN Strip(Tail(t))
    ELSE IF t[Len(t)] \in Whitespace THEN Strip(SubSeq(t, 1, Len(t) - 1))
    ELSE t

\* lines 171-182
Normalize_Open ==
    /\ pc = "normalize"
    /\ IF ~cfg.api_key THEN Abort("SystemExit") /\ UNCHANGED <<row, recs>>
       ELSE /\ pc' = "normalize_loop" /\ err' = err
            /\ row' = 1
            /\ recs' = <<>>
    /\ UNCHANGED <<cfg, items, files, utterances, resp, normalized_json, gmVars>>

\* the call wrapped in try/except: continue
OnNormalizerError_Mut(e) == row' = row + 1 /\ UNCHANGED <<pc, err, recs>>

\* llm_normalize is called outside any try (line 200), and so is norm.get
\* (lines 206-207): an exception leaves normalize_records and main
OnNormalizerError(e) == Abort(e) /\ UNCHANGED <<row, recs>>

\* the row is skipped (lines 185-193)
Skipped(d) ==
    \/ d.label \notin LABELS
    \/ d.label = "chitchat"
    \/ is_non_requirement(apply_replacements(Strip(d.text)))

\* the record of lines 195-215 from row d and the normalizer's result
Synthesize(d, norm) ==
    LET text == apply_replacements(Strip(d.text))
        feature == guess_feature(text)
        cat == IF d.label = "decision" THEN "decision"
               ELSE IF feature \notin nonfunctional_features THEN "functional"
               ELSE "nonfunctional"
    IN  Rec(feature, cat, NormGet(norm, "statement", text),
            NormGet(norm, "acceptance_criteria", <<>>),
            d.label, d.speaker, d.timestamp, d.label_reason, d.topic)

\* one iteration of `for d in rows:` (lines 184-216)
Normalize_Row ==
    /\ pc = "normalize_loop"
    /\ row <= Len(utterances)
    /\ LET d == utterances[row]
           text == apply_replacements(Strip(d.text))
       IN  IF Skipped(d)
           THEN /\ row' = row + 1
                /\ UNCHANGED <<pc, err, resp, recs>>
           ELSE \E api_error \in BOOLEAN, content \in ContentPool :
                  LET norm == llm_normalize(cfg.sdk_old, api_error, content, text)
                  IN  /\ resp' = IF api_error THEN NoResp
                                 ELSE [row |-> row, content |-> content]
                      /\ IF norm.raised # "none"
                         THEN OnNormalizerError(norm.raised)
                         ELSE IF ~norm.dict
                         THEN OnNormalizerError("AttributeError")
                         ELSE /\ recs' = Append(recs, Synthesize(d, norm))
                              /\ row' = row + 1
                              /\ UNCHANGED <<pc, err>>
    /\ UNCHANGED <<cfg, items, files, utterances, normalized_json, gmVars>>

\* lines 218-245: ids, then normalized.json
Normalize_Finish ==
    /\ pc = "normalize_loop"
    /\ row > Len(utterances)
    /\ recs' = AssignIds(recs)
    /\ normalized_json' = AssignIds(recs)
    /\ files' = files \cup {"normalized"}
    /\ resp' = NoResp
    /\ pc' = "gm_start"
    /\ UNCHANGED <<err, cfg, items, utterances, row, gmVars>>

(***************************************************************************)
(* gen_req.py, generate_markdown                                           *)
(***************************************************************************)
\* lines 86-93: replacements, the three lists, tentative decisions dropped
GM_Prepare ==
    /\ pc = "gm_start"
    /\ \E rs \in {[i \in 1..Len(recs) |->
                    [recs[i] EXCEPT !.statement = apply_replacements(@)]]} :
       LET d == RefsOf(rs, "decision")
       IN  /\ recs' = rs
           /\ fr' = RefsOf(rs, "functional")
           /\ nfr' = RefsOf(rs, "nonfunctional")
           /\ dec' = FilterSeq(d, {r \in Range(d) : ~is_tentative(rs[r].statement)})
    /\ pc' = "gm_collapse"
    /\ UNCHANGED <<err, cfg, items, files, utterances, row, resp, normalized_json,
                   latest_by_topic, keep_others, kept_fr, kept_nfr, out_of_scope>>

\* lines 96-108
GM_Collapse ==
    /\ pc = "gm_collapse"
    /\ \E st \in {CollapseLoop(recs, dec, 1,
                    [lbt |-> <<>>, others |-> <<>>, raised |-> FALSE])} :
           /\ latest_by_topic' = st.lbt
           /\ keep_others' = st.others
           /\ IF st.raised THEN Abort("TypeError") /\ dec' = dec
              ELSE /\ dec' = Values(st.lbt) \o st.others
                   /\ pc' = "gm_complete" /\ err' = err
    /\ UNCHANGED <<cfg, items, files, utterances, row, resp, recs, normalized_json,
                   fr, nfr, kept_fr, kept_nfr, out_of_scope>>

\* lines 110-111
GM_Complete ==
    /\ pc = "gm_complete"
    /\ recs' = CompleteAll(recs, dec, 1, fr \o nfr)
    /\ pc' = "gm_propagate"
    /\ UNCHANGED <<err, cfg, items, files, utterances, row, resp, normalized_json,
                   gmVars>>

\* the loop over fr without the `continue` of line 129: an excluded record
\* is appended to kept_fr too
GM_Propagate_Mut ==
    /\ pc = "gm_propagate"
    /\ LET rf == [r \in Range(fr) |-> RouteFr(recs, latest_by_topic, r)]
           rn == [r \in Range(nfr) |-> RouteNfr(recs, latest_by_topic, r)]
       IN  /\ kept_fr' = FilterSeq(fr, {r \in Range(fr) : rf[r] # "drop"})
           /\ kept_nfr' = FilterSeq(nfr, {r \in Range(nfr) : rn[r] = "keep"})
           /\ fr' = kept_fr'
           /\ nfr' = kept_nfr'
           /\ out_of_scope' =
                 FilterSeq(fr, {r \in Range(fr) : rf[r] = "out_of_scope"})
                 \o FilterSeq(nfr, {r \in Range(nfr) : rn[r] = "out_of_scope"})
    /\ pc' = "gm_dedup"
    /\ UNCHANGED <<err, cfg, items, files, utterances, row, resp, recs,
                   normalized_json, dec, latest_by_topic, keep_others>>

\* lines 113-147
GM_Propagate ==
    /\ pc = "gm_propagate"
    /\ LET rf == [r \in Range(fr) |-> RouteFr(recs, latest_by_topic, r)]
           rn == [r \in Range(nfr) |-> RouteNfr(recs, latest_by_topic, r)]
       IN  /\ kept_fr' = FilterSeq(fr, {r \in Range(fr) : rf[r] = "keep"})
           /\ kept_nfr' = FilterSeq(nfr, {r \in Range(nfr) : rn[r] = "keep"})
           /\ fr' = kept_fr'
           /\ nfr' = kept_nfr'
           /\ out_of_scope' =
                 FilterSeq(fr, {r \in Range(fr) : rf[r] = "out_of_scope"})
                 \o FilterSeq(nfr, {r \in Range(nfr) : rn[r] = "out_of_scope"})
    /\ pc' = "gm_dedup"
    /\ UNCHANGED <<err, cfg, items, files, utterances, row, resp, recs, normalized_json,
                   dec, latest_by_topic, keep_others>>

\* lines 149-151
GM_Dedup ==
    /\ pc = "gm_dedup"
    /\ fr' = dedup(recs, fr)
    /\ nfr' = dedup(recs, nfr)
    /\ dec' = dedup(recs, dec)
    /\ pc' = "gm_sort"
    /\ UNCHANGED <<err, cfg, items, files, utterances, row, resp, recs, normalized_json,
                   latest_by_topic, keep_others, kept_fr, kept_nfr, out_of_scope>>

\* lines 153-156
GM_Sort ==
    /\ pc = "gm_sort"
    /\ IF SortRaises(recs, dec) THEN Abort("TypeError") /\ dec' = dec
       ELSE /\ dec' = SortedDesc(recs, dec, 1, <<>>)
            /\ pc' = "gm_render" /\ err' = err
    /\ UNCHANGED <<cfg, items, files, utterances, row, resp, recs, normalized_json,
                   fr, nfr, latest_by_topic, keep_others, kept_fr, kept_nfr,
                   out_of_scope>>

\* lines 158-179: fr, nfr, dec and out_of_scope go to the template,
\* the document is written
GM_Render ==
    /\ pc = "gm_render"
    /\ files' = files \cup {"spec_md"}
    /\ pc' = "main_meta"
    /\ UNCHANGED <<err, cfg, items, utterances, row, resp, recs, normalized_json, gmVars>>

\* main, lines 178-208: run_meta.json
Main_WriteMeta ==
    /\ pc = "main_meta"
    /\ files' = files \cup {"run_meta"}
    /\ pc' = "done"
    /\ UNCHANGED <<err, cfg, items, utterances, row, resp, recs, normalized_json, gmVars>>

Next ==
    \/ Main_Start
    \/ Main_Lock
    \/ Classify_Call
    \/ Classify_Join
    \/ Normalize_Open
    \/ Normalize_Row
    \/ Normalize_Finish
    \/ GM_Prepare
    \/ GM_Collapse
    \/ GM_Complete
    \/ GM_Propagate
    \/ GM_Dedup
    \/ GM_Sort
    \/ GM_Render
    \/ Main_WriteMeta

Spec == Init /\ [][Next]_vars

\* generate_markdown alone, on any normalized document
NextRec ==
    \/ GM_Prepare
    \/ GM_Collapse
    \/ GM_Complete
    \/ GM_Propagate
    \/ GM_Dedup
    \/ GM_Sort
    \/ GM_Render

SpecRec == InitRec /\ [][NextRec]_vars

(***************************************************************************)
(* Properties.                                                             *)
(***************************************************************************)
\* generate_markdown has sorted dec: fr, nfr, dec and out_of_scope are final
Reconciled == pc \in {"gm_render", "main_meta", "done"}

\* the loops over fr and nfr have run
Propagated == pc \in {"gm_dedup", "gm_sort"} \/ Reconciled

\* the text contains one of the profile's tentative words
HasTentative(text) ==
    \E i \in 1..Len(text), w \in tentative_words : TokenHas(text[i], w)

Decisions == {r \in 1..Len(recs) : recs[r].category = "decision"}

Requirements == {r \in 1..Len(recs) : recs[r].category # "decision"}

\* the statement of record r as generate_markdown first reads it: the
\* synthesized statement after text replacement
InStmt(r) == apply_replacements(normalized_json[r].statement)

ParsedTs(r) == to_dt(recs[r].source.timestamp)

Unparsable(r) == ~fromisoformat(StripZ(recs[r].source.timestamp)).ok

\* the non-tentative input decisions of topic t
InputDecisions(t) ==
    {r \in Decisions : ~HasTentative(InStmt(r)) /\ topic_of(InStmt(r)) = t}

\* C1 as claimed: for every topic T other than "sonota", taking the topic of
\* a final decision from its statement, the final DEC sequence holds at most
\* one decision of topic T, and its parsed timestamp is maximal among the
\* non-tentative input decisions of topic T.
C1_Original ==
    Reconciled =>
        \A i, j \in 1..Len(dec) :
            LET t == topic_of(recs[dec[i]].statement)
            IN  (t # "sonota" /\ topic_of(recs[dec[j]].statement) = t) =>
                   /\ i = j
                   /\ \A r \in InputDecisions(t) :
                         ParsedTs(r).v <= ParsedTs(dec[i]).v

\* C1 amended: the same, the topic of a decision being the topic of its
\* statement as it enters the per-topic collapse (after text replacement,
\* before elliptical completion).
C1_PerTopicLatest ==
    Reconciled =>
        \A i \in 1..Len(dec) :
            \A t \in {topic_of(InStmt(dec[i]))} \ {"sonota"} :
                /\ \A j \in 1..Len(dec) :
                      topic_of(InStmt(dec[j])) = t => i = j
                /\ \A ds \in {InputDecisions(t)} :
                      /\ dec[i] \in ds
                      /\ \A r \in ds : ParsedTs(r).v <= ParsedTs(dec[i]).v

\* two input decisions of one topic, the earlier one first in the input,
\* and only the later one is in the final DEC sequence
C1_Witness ==
    /\ Reconciled
    /\ \E r1, r2 \in InputDecisions("tsuchi") :
          /\ r1 < r2
          /\ ParsedTs(r1).v < ParsedTs(r2).v
          /\ recs[r1].statement # recs[r2].statement
          /\ r2 \in Range(dec)
          /\ r1 \notin Range(dec)

\* the decision that governs topic t has a statement containing "jogai"
GovernedByExclusion(t) ==
    /\ KeyIndex(latest_by_topic, t) # 0
    /\ Contains(recs[LatestFor(latest_by_topic, t)].statement, "jogai")

\* C2: every functional or nonfunctional record whose topic is governed by a
\* decision whose statement contains "jogai" is in Out-of-Scope and in
\* neither the final FR nor the final NFR sequence.
C2_ExclusionPropagates ==
    Propagated =>
        \A r \in Requirements :
            GovernedByExclusion(topic_of(recs[r].statement)) =>
               /\ r \in Range(out_of_scope)
               /\ r \notin Range(fr) \cup Range(nfr)

\* a functional and a nonfunctional record have been moved to Out-of-Scope
C2_Witness ==
    /\ Reconciled
    /\ \E r1, r2 \in Range(out_of_scope) :
          /\ recs[r1].category = "functional"
          /\ recs[r2].category = "nonfunctional"
          /\ GovernedByExclusion(topic_of(recs[r1].statement))
          /\ GovernedByExclusion(topic_of(recs[r2].statement))

Numbered(seq, prefix) ==
    \A k \in 1..Len(seq) : recs[seq[k]].id = [prefix |-> prefix, seq |-> k]

\* C3 as claimed: the k-th record of each final sequence carries the id
\* PREFIX-k: numbering starts at 1 and has no gaps in the order rendered.
C3_Original ==
    Reconciled =>
        /\ Numbered(fr, "FR")
        /\ Numbered(nfr, "NFR")
        /\ Numbered(dec, "DEC")

\* the comparison key of the claim: feature, category and the statement
\* without white space, "kuten" and "touten"
C4_Key(r) ==
    <<recs[r].feature, recs[r].category,
      SelectSeq(recs[r].statement,
                LAMBDA x : x \notin {" ", "nl", "kuten", "touten"})>>

\* the records of seq that no earlier record of seq duplicates, in order
C4_Firsts(seq) ==
    FilterSeq(seq, {seq[k] : k \in {k \in 1..Len(seq) :
                       \A j \in 1..(k - 1) : C4_Key(seq[j]) # C4_Key(seq[k])}})

C4_NoDuplicate(seq) ==
    \A i, j \in 1..Len(seq) : C4_Key(seq[i]) = C4_Key(seq[j]) => i = j

\* C4: in each final sequence no two records share (feature, category,
\* normalized statement); of the records that share it the first one
\* survives, and dedup leaves the survivors in their order.
C4_DedupFirstWins ==
    /\ (pc = "gm_sort" \/ Reconciled) =>
          /\ fr = C4_Firsts(kept_fr)
          /\ nfr = C4_Firsts(kept_nfr)
          /\ C4_NoDuplicate(fr) /\ C4_NoDuplicate(nfr) /\ C4_NoDuplicate(dec)
          /\ Range(dec) = Range(C4_Firsts(Values(latest_by_topic) \o keep_others))
    /\ pc = "gm_sort" =>
          dec = C4_Firsts(Values(latest_by_topic) \o keep_others)

\* of two functional records that differ in white space and punctuation
\* only, the second has been dropped
C4_Witness ==
    /\ Reconciled
    /\ Len(fr) < Len(kept_fr)
    /\ \E i, j \in 1..Len(kept_fr) :
          /\ i < j
          /\ recs[kept_fr[i]].statement # recs[kept_fr[j]].statement
          /\ kept_fr[i] \in Range(fr)
          /\ kept_fr[j] \notin Range(fr)

\* C5 as claimed: no record of the final DEC sequence has a statement that
\* contains a tentative word.
C5_Original ==
    Reconciled => \A d \in Range(dec) : ~HasTentative(recs[d].statement)

\* C5 amended: no decision whose own statement (as synthesized, after text
\* replacement) contains a tentative word is in the final DEC sequence, even
\* when it is the latest of its topic; a final DEC statement contains a
\* tentative word only in the text elliptical completion copied into it.
C5_NoTentativeDecision ==
    Reconciled =>
        \A d \in Range(dec) :
            /\ ~HasTentative(InStmt(d))
            /\ HasTentative(recs[d].statement) =>
                  /\ IsElliptical(InStmt(d))
                  /\ \E p \in Requirements :
                        /\ HasTentative(recs[p].statement)
                        /\ recs[d].statement = ElliptPrefix \o recs[p].statement

\* a tentative decision is the latest of its topic and is not in DEC, which
\* holds the older decision of the topic
C5_Witness ==
    /\ Reconciled
    /\ \E d \in Decisions, e \in Range(dec) :
          /\ HasTentative(InStmt(d))
          /\ topic_of(InStmt(d)) = topic_of(InStmt(e))
          /\ ParsedTs(d).v > ParsedTs(e).v
          /\ d \notin Range(dec)

\* r is a functional record of topic "button_ichi" whose value conflicts
\* with the value of the governing decision
C6_Conflicts(r) ==
    LET ds == recs[LatestFor(latest_by_topic, "button_ichi")].statement
        s == recs[r].statement
    IN  /\ recs[r].category = "functional"
        /\ topic_of(s) = "button_ichi"
        /\ KeyIndex(latest_by_topic, "button_ichi") # 0
        /\ \/ (Contains(s, "migishita") /\ Contains(ds, "chuuouka"))
           \/ (Contains(s, "chuuouka") /\ Contains(ds, "migishita"))

\* C6 as claimed: such a record is in neither the final FR sequence nor
\* Out-of-Scope.
C6_Original ==
    Propagated =>
        \A r \in Requirements :
            C6_Conflicts(r) => r \notin Range(fr) \cup Range(out_of_scope)

\* C6 amended: such a record is never in the final FR sequence; it is in
\* Out-of-Scope when the governing decision's statement contains "jogai"
\* and in neither sequence otherwise.
C6_ConflictDropped ==
    Propagated =>
        \A r \in Requirements :
            C6_Conflicts(r) =>
               /\ r \notin Range(fr)
               /\ r \in Range(out_of_scope) <=> GovernedByExclusion("button_ichi")

\* a conflicting record has been dropped silently
C6_Witness ==
    /\ Reconciled
    /\ \E r \in Requirements :
          /\ C6_Conflicts(r)
          /\ ~GovernedByExclusion("button_ichi")
          /\ r \notin Range(fr) \cup Range(out_of_scope)

C7_Descending ==
    \A k \in 1..(Len(dec) - 1) : ParsedTs(dec[k]).v >= ParsedTs(dec[k + 1]).v

\* C7 as claimed: the final DEC sequence is in descending order of parsed
\* timestamp, and every record with an unparsable timestamp comes after
\* all records with a parsable one.
C7_Original ==
    Reconciled =>
        /\ C7_Descending
        /\ \A i, j \in 1..Len(dec) :
              (Unparsable(dec[i]) /\ ~Unparsable(dec[j])) => j < i

\* C7 amended: the final DEC sequence is in descending order of parsed
\* timestamp; an unparsable timestamp counts as datetime.min, so such a
\* record comes after every record whose timestamp parses to a later value
\* (a record whose timestamp parses to datetime.min itself may follow it).
C7_SortedByRecency ==
    Reconciled =>
        /\ C7_Descending
        /\ \A i, j \in 1..Len(dec) :
              (Unparsable(dec[i]) /\ ~Unparsable(dec[j])
                  /\ ParsedTs(dec[j]).v > DatetimeMin) => j < i

\* the sort has moved a later decision in front of an earlier one and an
\* unparsable one behind both
C7_Witness ==
    /\ Reconciled
    /\ Len(dec) = 3
    /\ dec[1] > dec[2]
    /\ ParsedTs(dec[1]).v > ParsedTs(dec[2]).v
    /\ Unparsable(dec[3])
    /\ dec[3] < dec[1]

\* the answer cannot be parsed into an object with the two keys
Malformed(content) ==
    LET v == json_loads(_extract_json_text(content))
    IN  ~(v.ok /\ v.dict /\ v.full)

\* C8 as claimed: when the normalizer's answer for a row cannot be parsed
\* into a well-formed result, the run does not fail there and the row's
\* record has the corrected text as statement and no acceptance criteria.
C8_Original ==
    (resp.row # 0 /\ Malformed(resp.content)) =>
        /\ pc # "aborted"
        /\ recs # <<>>
        /\ recs[Len(recs)].statement =
              apply_replacements(Strip(utterances[resp.row].text))
        /\ recs[Len(recs)].acceptance_criteria = <<>>

\* the normalizer call failed for a kept utterance
NormalizerFailed == pc = "aborted" /\ row \in 1..Len(utterances)

KeptRows == {i \in 1..Len(utterances) : ~Skipped(utterances[i])}

\* C9: when the normalizer call fails for a kept utterance the run ends
\* there, and it has written no normalized-records file, no markdown
\* document and no run manifest; a normalized-records file, once written,
\* holds one record for every kept utterance.
C9_FailFast ==
    /\ NormalizerFailed =>
          /\ files \cap {"normalized", "spec_md", "run_meta"} = {}
          /\ normalized_json = <<>>
    /\ "normalized" \in files => Len(normalized_json) = Cardinality(KeptRows)

\* the second kept utterance failed after the first had become a record
C9_Witness ==
    /\ NormalizerFailed
    /\ row = 2
    /\ Len(recs) = 1
    /\ "classified" \in files

\* C10 as claimed: the reconciliation never raises, whatever the source
\* timestamps of the records.
C10_Original == ~(pc = "aborted" /\ err = "TypeError")

\* the records of the final FR and NFR sequences and of Out-of-Scope
FinalRequirements == Range(fr) \cup Range(nfr) \cup Range(out_of_scope)

\* C11 as claimed: every functional and nonfunctional record of the final
\* sequences, and every final decision that is not elliptical, equals the
\* synthesized input record in every field.
C11_Original ==
    Reconciled =>
        \A r \in FinalRequirements
                 \cup {d \in Range(dec) :
                          ~IsElliptical(normalized_json[d].statement)} :
            recs[r] = normalized_json[r]

\* C11 amended: such a record equals the synthesized input record in every
\* field but the statement, and its statement is the synthesized statement
\* after the profile's text replacements.
C11_FrameEffect ==
    Reconciled =>
        \A r \in FinalRequirements
                 \cup {d \in Range(dec) : ~IsElliptical(InStmt(d))} :
            /\ recs[r].statement = InStmt(r)
            /\ recs[r] = [normalized_json[r] EXCEPT !.statement = recs[r].statement]

\* an elliptical decision has been completed from a nonfunctional record
\* that text replacement had changed, next to a decision that is not
\* elliptical
C11_Witness ==
    /\ Reconciled
    /\ \E d, e \in Range(dec), r \in FinalRequirements :
          /\ IsElliptical(InStmt(d))
          /\ recs[d].statement = ElliptPrefix \o recs[r].statement
          /\ recs[r].statement # normalized_json[r].statement
          /\ ~IsElliptical(InStmt(e))
          /\ recs[e] = normalized_json[e]

\* labeled utterance v is input utterance u joined to the items of the
\* answer its that carry the 0-based index i
C12_Joined(u, v, its, i) ==
    LET hits == {k \in 1..Len(its) : its[k].index = i}
    IN  /\ v.speaker = u.speaker /\ v.timestamp = u.timestamp /\ v.text = u.text
        /\ IF hits = {}
           THEN v.label = "other" /\ v.topic = "sonota" /\ v.label_reason = ""
           ELSE \E k \in hits :
                   /\ its[k].label # NoKey => v.label = its[k].label
                   /\ its[k].topic # NoKey => v.topic = its[k].topic
                   /\ its[k].reason # NoKey => v.label_reason = its[k].reason

\* C12: the classified output has exactly one labeled utterance per input
\* utterance, in input order, joined to the classifier's items by index; an
\* index the classifier did not return gets label "other", topic "sonota"
\* and an empty reason.
C12_ClassifyPreservesInput ==
    [][pc = "classify_join" =>
          /\ Len(utterances') = Len(utterances)
          /\ \A i \in 1..Len(utterances) :
                C12_Joined(utterances[i], utterances'[i], items, i - 1)]_vars

\* classified.json is written: the first of two utterances has the default
\* labels, the second the labels of an item
C12_Witness ==
    /\ pc = "normalize"
    /\ "classified" \in files
    /\ Len(utterances) = 2
    /\ utterances[1].label = "other"
    /\ utterances[1].topic = "sonota"
    /\ utterances[1].label_reason = ""
    /\ utterances[2].label = "decision"
    /\ utterances[2].topic = "t"

\* main has ended with the error of a missing input file, credential or
\* profile
C13_ConfigError ==
    /\ pc = "aborted"
    /\ err = "SystemExit"
    /\ \/ ~cfg.input_exists
       \/ ~cfg.api_key
       \/ (cfg.mode = "eval" /\ cfg.lock = "ok" /\ ~cfg.profile_exists)

\* C13 as claimed: when main terminates with a configuration error, the run
\* has created or modified no file or directory.
C13_Original == C13_ConfigError => files = {}

\* the statement mentions the error message, the wording or the message
C14_Mentions(text) ==
    \E i \in 1..Len(text) :
        \/ TokenHas(text[i], "error_message")
        \/ TokenHas(text[i], "mongon")
        \/ TokenHas(text[i], "message")

\* the statement starts with "mongon" or contains "sono_mongon_de_kettei"
C14_Elliptical(text) ==
    \/ (text # <<>> /\ text[1] = "mongon")
    \/ \E i \in 1..Len(text) : TokenHas(text[i], "sono_mongon_de_kettei")

\* the statement the claim gives decision d, fr \o nfr being the
\* concatenation functional-then-nonfunctional
C14_Completed(d) ==
    LET both == fr \o nfr
        hits == {k \in 1..Len(both) : C14_Mentions(recs[both[k]].statement)}
    IN  IF C14_Elliptical(recs[d].statement) /\ hits # {}
        THEN <<"error_message", "mongon", "wo_kakutei", ":", " ">>
                \o recs[both[CHOOSE k \in hits : \A j \in hits : j <= k]].statement
        ELSE recs[d].statement

\* C14: the completion step rewrites the statement of each surviving
\* elliptical decision to the prefix followed by the statement of the
\* highest-index record of functional-then-nonfunctional that mentions the
\* error message, the wording or the message; without such a record, and for
\* every decision that is not elliptical, the statement is left unchanged.
C14_EllipticalCompletion ==
    [][pc = "gm_complete" =>
          \A d \in Range(dec) : recs'[d].statement = C14_Completed(d)]_vars

\* an elliptical decision has been completed from the nonfunctional record
\* although a functional record with another statement mentions the message
\* too
C14_Witness ==
    /\ pc = "gm_propagate"
    /\ \E d \in Range(dec), f \in Range(fr), n \in Range(nfr) :
          /\ C14_Elliptical(InStmt(d))
          /\ C14_Mentions(recs[f].statement)
          /\ C14_Mentions(recs[n].statement)
          /\ recs[f].statement # recs[n].statement
          /\ recs[d].statement =
                <<"error_message", "mongon", "wo_kakutei", ":", " ">>
                   \o recs[n].statement

\* decision r is the one the collapse kept for topic t
C15_Kept(t, r) ==
    \E k \in 1..Len(latest_by_topic) :
        latest_by_topic[k] = [topic |-> t, ref |-> r]

\* the topics other than "sonota" of the decisions entering the collapse
C15_Topics == {topic_of(recs[r].statement) : r \in Decisions} \ {"sonota"}

\* the non-tentative decisions of topic t entering the collapse
C15_Entering(t) ==
    {r \in Decisions :
        ~HasTentative(recs[r].statement) /\ topic_of(recs[r].statement) = t}

\* C15: when the collapse has run, of the non-tentative decisions of one
\* topic other than "sonota" that have equal parsed timestamps (both
\* unparsable included), every one but the first in the input is discarded,
\* and the first one is the decision kept for the topic when no decision of
\* the topic has a later timestamp.
C15_TieKeepsFirst ==
    pc = "gm_complete" =>
        \A t \in C15_Topics :
            \A ds \in {C15_Entering(t)} :
                \A r1, r2 \in ds :
                    (r1 < r2 /\ ParsedTs(r1) = ParsedTs(r2)) =>
                        /\ ~C15_Kept(t, r2)
                        /\ r2 \notin Range(dec)
                        /\ ( /\ \A r \in ds : ParsedTs(r).v <= ParsedTs(r1).v
                             /\ \A r \in ds : ParsedTs(r) = ParsedTs(r1) => r1 <= r )
                             => C15_Kept(t, r1) /\ r1 \in Range(dec)

\* the collapse has kept the first of two decisions of one topic whose
\* timestamps are both unparsable, and discarded the second
C15_Witness ==
    /\ pc = "gm_complete"
    /\ \E r1, r2 \in Decisions :
          /\ r1 < r2
          /\ topic_of(InStmt(r1)) = topic_of(InStmt(r2))
          /\ Unparsable(r1) /\ Unparsable(r2)
          /\ recs[r1].statement # recs[r2].statement
          /\ C15_Kept(topic_of(InStmt(r1)), r1)
          /\ r1 \in Range(dec)
          /\ r2 \notin Range(dec)

\* the references of seq ascend: its records are pairwise different and in
\* the order of the input
C16_InInputOrder(seq) ==
    \A i, j \in 1..Len(seq) : i < j => seq[i] < seq[j]

C16_AllOf(seq, category) ==
    \A k \in 1..Len(seq) :
        /\ seq[k] \in 1..Len(normalized_json)
        /\ normalized_json[seq[k]].category = category

\* record r is in none of the final sequences for one of the two reasons
\* the claim names: the conflict rule, or an earlier record of the final
\* sequence of its category with the same dedup key
C16_Dropped(r) ==
    \/ C6_Conflicts(r)
    \/ \E q \in Range(fr) \cup Range(nfr) : q < r /\ C4_Key(q) = C4_Key(r)

\* C16: the final FR and NFR sequences hold input records of their own
\* category, each once and in input order; Out-of-Scope holds excluded
\* functional records, then excluded nonfunctional ones, each once and in
\* input order; no record is in a kept sequence and in Out-of-Scope; and a
\* functional or nonfunctional input record in none of them was dropped by
\* the conflict rule or by dedup.
C16_OnlyRemovesOrReroutes ==
    Reconciled =>
        /\ Len(recs) = Len(normalized_json)
        /\ C16_AllOf(fr, "functional") /\ C16_InInputOrder(fr)
        /\ C16_AllOf(nfr, "nonfunctional") /\ C16_InInputOrder(nfr)
        /\ \E k \in 0..Len(out_of_scope) :
              /\ C16_AllOf(SubSeq(out_of_scope, 1, k), "functional")
              /\ C16_InInputOrder(SubSeq(out_of_scope, 1, k))
              /\ C16_AllOf(SubSeq(out_of_scope, k + 1, Len(out_of_scope)),
                           "nonfunctional")
              /\ C16_InInputOrder(SubSeq(out_of_scope, k + 1, Len(out_of_scope)))
        /\ Range(out_of_scope) \cap (Range(fr) \cup Range(nfr)) = {}
        /\ \A r \in Requirements \ FinalRequirements : C16_Dropped(r)

\* Out-of-Scope lists an excluded functional record before an excluded
\* nonfunctional one that precedes it in the input
C16_Witness ==
    /\ Reconciled
    /\ Len(out_of_scope) = 2
    /\ normalized_json[out_of_scope[1]].category = "functional"
    /\ normalized_json[out_of_scope[2]].category = "nonfunctional"
    /\ out_of_scope[2] < out_of_scope[1]

====
